---- MODULE Spec2Model ----
(***************************************************************************)
(* Model of pdf2img.py: batch_convert_pdfs drives convert_pdf_to_images    *)
(* over the *.pdf entries of a directory listing.  File names, paths and   *)
(* metadata values are sequences of one-character strings so that lower(), *)
(* endswith(), splitext(), basename(), join() and str() are computed, not  *)
(* assumed.  The PDF renderer, the PNG writer and the filesystem are       *)
(* modelled by their outcomes (success, or an exception).                  *)
(***************************************************************************)
EXTENDS Integers, Sequences, FiniteSets, TLC

VARIABLES
    listing,        \* os.listdir(input_folder): the directory's entries
    metadata,       \* the metadata argument: [none |-> BOOLEAN, items |-> Seq(<<key, value>>)]
    dirs,           \* directories that exist (paths)
    files,          \* image files on disk: records keyed by their path
    out,            \* what print() has written, in order
    pc,             \* control position
    pdf_files,      \* batch_convert_pdfs: the selected entries
    idx,            \* batch_convert_pdfs: how many entries the for loop has consumed
    successful,     \* batch_convert_pdfs: counter
    failed,         \* batch_convert_pdfs: counter
    pdf_path,       \* convert_pdf_to_images: argument
    conv_folder,    \* convert_pdf_to_images: argument output_folder
    has_doc,        \* convert_pdf_to_images: 'pdf_document' in locals()
    page_count,     \* pdf_document.page_count
    page_number,    \* the page loop's variable (0-based)
    retval,         \* the value of the return statement that was executed
    openDocs,       \* number of document handles currently open in the renderer
    clock,          \* what datetime.now() returns next
    calls,          \* history: the entries handed to convert_pdf_to_images, in order
    results,        \* history: the booleans convert_pdf_to_images returned, in order
    closeCalls,     \* history: pdf_document.close() calls made by the current call
    written,        \* history: paths img.save wrote in the current call, in order
    rendered,       \* history: pages rendered (get_pixmap returned) in the current call
    error,          \* history: the exception caught in the current call
    raisedBy,       \* the statement whose exception left convert_pdf_to_images
    writeLog        \* history: every successful img.save of the batch: <<entry, path>>

vars == <<listing, metadata, dirs, files, out, pc, pdf_files, idx, successful, failed,
          pdf_path, conv_folder, has_doc, page_count, page_number, retval, openDocs,
          clock, calls, results, closeCalls, written, rendered, error, raisedBy, writeLog>>

batchVars == <<pdf_files, idx, successful, failed>>
convVars  == <<pdf_path, conv_folder, has_doc, page_count, page_number>>

(***************************************************************************)
(* Bounds                                                                  *)
(***************************************************************************)
MaxFiles == 2      \* longest directory listing
MaxPages == 2      \* largest page count the renderer reports

(***************************************************************************)
(* Strings                                                                 *)
(***************************************************************************)
Digits == <<"0", "1", "2", "3", "4", "5", "6", "7", "8", "9">>

RECURSIVE Str(_)
Str(n) == IF n < 10 THEN <<Digits[n + 1]>>
          ELSE Str(n \div 10) \o <<Digits[(n % 10) + 1]>>

PyStr(value) == IF value.t = "int" THEN Str(value.v) ELSE value.v

LowerChar(c) ==
    CASE c = "A" -> "a" [] c = "B" -> "b" [] c = "D" -> "d" [] c = "F" -> "f"
      [] c = "N" -> "n" [] c = "P" -> "p" [] c = "T" -> "t" [] c = "X" -> "x"
      [] OTHER -> c

Lower(s) == [i \in 1..Len(s) |-> LowerChar(s[i])]

EndsWith(s, suffix) ==
    /\ Len(suffix) <= Len(s)
    /\ SubSeq(s, Len(s) - Len(suffix) + 1, Len(s)) = suffix

\* s.rfind(c), 1-based; 0 when absent
RFind(s, c) ==
    LET hits == {i \in 1..Len(s) : s[i] = c}
    IN  IF hits = {} THEN 0 ELSE CHOOSE i \in hits : \A j \in hits : j <= i

Basename(p) == SubSeq(p, RFind(p, "/") + 1, Len(p))

Join(a, b) == a \o <<"/">> \o b

\* os.path.splitext(p)[0] for a p without separator: the last dot splits,
\* unless only dots precede it
SplitextRoot(p) ==
    LET dot == RFind(p, ".")
    IN  IF dot > 0 /\ \E i \in 1..(dot - 1) : p[i] # "."
        THEN SubSeq(p, 1, dot - 1)
        ELSE p

DotPdf  == <<".", "p", "d", "f">>
PageTag == <<"_", "p", "a", "g", "e", "_">>
DotPng  == <<".", "p", "n", "g">>

(***************************************************************************)
(* Inputs                                                                  *)
(***************************************************************************)
input_folder  == <<"i">>
output_folder == <<"o">>

Names == { <<"a", ".", "p", "d", "f">>,
           <<"a", ".", "P", "D", "F">>,
           <<"b", ".", "p", "d", "f">>,
           <<"n", ".", "t", "x", "t">> }

Listings ==
    {s \in UNION {[1..n -> Names] : n \in 0..MaxFiles} :
        \A i, j \in 1..Len(s) : i # j => s[i] # s[j]}

S(chars) == [t |-> "str", v |-> chars]
I(n)     == [t |-> "int", v |-> n]

Alice == <<"A", "l", "i", "c", "e">>

\* main(): the dictionary built from --author, --project, --department
\* (None or "" leaves the key out)
MainMetadata(author, project, department) ==
    [none |-> FALSE,
     items |-> (IF author # <<>> THEN <<<<"Author", S(author)>>>> ELSE <<>>)
            \o (IF project # <<>> THEN <<<<"Project", S(project)>>>> ELSE <<>>)
            \o (IF department # <<>> THEN <<<<"Department", S(department)>>>> ELSE <<>>)]

MetadataInputs ==
    { [none |-> TRUE, items |-> <<>>],
      MainMetadata(<<>>, <<>>, <<>>),
      MainMetadata(Alice, <<"X">>, <<>>),
      [none |-> FALSE, items |-> << <<"Total_Pages", I(99)>> >>] }

(***************************************************************************)
(* convert_pdf_to_images: what it computes                                 *)
(***************************************************************************)
IsPdf(f) == EndsWith(Lower(f), DotPdf)

\* variant: the file is named after the 0-based loop variable
ImagePath_ZeroBased(path, folder, pageno) ==
    Join(folder, SplitextRoot(Basename(path)) \o PageTag \o Str(pageno) \o DotPng)

ImagePath(path, folder, pageno) ==
    Join(folder, SplitextRoot(Basename(path)) \o PageTag \o Str(pageno + 1) \o DotPng)

IsoFormat(t) == <<"T">> \o Str(t)

\* variant: Page_Number is the 0-based loop variable
BasicMetadata_ZeroBasedPage(path, pageno, npages, now) ==
    << <<"Source_PDF", Basename(path)>>,
       <<"Conversion_Date", IsoFormat(now)>>,
       <<"Page_Number", Str(pageno)>>,
       <<"Total_Pages", Str(npages)>> >>

BasicMetadata(path, pageno, npages, now) ==
    << <<"Source_PDF", Basename(path)>>,
       <<"Conversion_Date", IsoFormat(now)>>,
       <<"Page_Number", Str(pageno + 1)>>,
       <<"Total_Pages", Str(npages)>> >>

CustomMetadata(md) ==
    IF md.none \/ md.items = <<>> THEN <<>>
    ELSE [i \in 1..Len(md.items) |-> <<md.items[i][1], PyStr(md.items[i][2])>>]

Save(fs, path, rec) == {f \in fs : f.path # path} \cup {rec}

NoError == [kind |-> "none", page |-> 0]

(***************************************************************************)
(* Initial state                                                           *)
(***************************************************************************)
Init ==
    /\ listing \in Listings
    /\ metadata \in MetadataInputs
    /\ dirs \in {{}, {output_folder}}
    /\ files = {}
    /\ out = <<>>
    /\ pc = "batch_start"
    /\ pdf_files = <<>>
    /\ idx = 0
    /\ successful = 0
    /\ failed = 0
    /\ pdf_path = <<>>
    /\ conv_folder = <<>>
    /\ has_doc = FALSE
    /\ page_count = 0
    /\ page_number = 0
    /\ retval = FALSE
    /\ openDocs = 0
    /\ clock = 0
    /\ calls = <<>>
    /\ results = <<>>
    /\ closeCalls = 0
    /\ written = <<>>
    /\ rendered = 0
    /\ error = NoError
    /\ raisedBy = "none"
    /\ writeLog = <<>>

(***************************************************************************)
(* batch_convert_pdfs                                                      *)
(***************************************************************************)
\* variant: the early return of lines 80-82 is missing
BatchStart_NoEmptyCheck ==
    /\ pc = "batch_start"
    /\ dirs' = dirs \cup {output_folder}
    /\ pdf_files' = SelectSeq(listing, IsPdf)
    /\ out' = Append(out, <<"found", Len(pdf_files')>>)
    /\ pc' = "batch_loop"
    /\ UNCHANGED <<listing, metadata, files, idx, successful, failed, convVars, retval,
                   openDocs, clock, calls, results, closeCalls, written, rendered,
                   error, raisedBy, writeLog>>

\* lines 74-84: create the output folder, list, select, stop when nothing is selected
BatchStart ==
    /\ pc = "batch_start"
    /\ dirs' = dirs \cup {output_folder}
    /\ pdf_files' = SelectSeq(listing, IsPdf)
    /\ IF pdf_files' = <<>>
       THEN /\ out' = Append(out, <<"nofiles">>)
            /\ pc' = "batch_nofiles"
       ELSE /\ out' = Append(out, <<"found", Len(pdf_files')>>)
            /\ pc' = "batch_loop"
    /\ UNCHANGED <<listing, metadata, files, idx, successful, failed, convVars, retval,
                   openDocs, clock, calls, results, closeCalls, written, rendered,
                   error, raisedBy, writeLog>>

\* lines 90-96: the next entry is handed to convert_pdf_to_images
BatchCallConvert ==
    /\ pc = "batch_loop"
    /\ idx < Len(pdf_files)
    /\ LET pdf_file == pdf_files[idx + 1]
       IN  /\ pdf_path' = Join(input_folder, pdf_file)
           /\ conv_folder' = Join(output_folder, SplitextRoot(pdf_file))
           /\ calls' = Append(calls, pdf_file)
    /\ idx' = idx + 1
    /\ has_doc' = FALSE
    /\ page_count' = 0
    /\ page_number' = 0
    /\ closeCalls' = 0
    /\ written' = <<>>
    /\ rendered' = 0
    /\ error' = NoError
    /\ pc' = "conv_mkdir"
    /\ UNCHANGED <<listing, metadata, dirs, files, out, pdf_files, successful, failed,
                   retval, openDocs, clock, results, raisedBy, writeLog>>

\* variant: the loop is left at the first failed conversion
BatchCount_BreakOnFailure ==
    /\ pc = "batch_return"
    /\ IF retval
       THEN /\ successful' = successful + 1 /\ failed' = failed
            /\ pc' = "batch_loop"
            /\ out' = out
       ELSE /\ failed' = failed + 1 /\ successful' = successful
            /\ out' = Append(out, <<"summary", successful', failed'>>)
            /\ pc' = "batch_done"
    /\ UNCHANGED <<listing, metadata, dirs, files, pdf_files, idx, convVars, retval,
                   openDocs, clock, calls, results, closeCalls, written, rendered,
                   error, raisedBy, writeLog>>

\* variant: every returned boolean is counted as a success
BatchCount_AlwaysSuccessful ==
    /\ pc = "batch_return"
    /\ successful' = successful + 1
    /\ failed' = failed
    /\ pc' = "batch_loop"
    /\ UNCHANGED <<listing, metadata, dirs, files, out, pdf_files, idx, convVars, retval,
                   openDocs, clock, calls, results, closeCalls, written, rendered,
                   error, raisedBy, writeLog>>

\* lines 96-99: the returned boolean is counted
BatchCount ==
    /\ pc = "batch_return"
    /\ IF retval
       THEN successful' = successful + 1 /\ failed' = failed
       ELSE failed' = failed + 1 /\ successful' = successful
    /\ pc' = "batch_loop"
    /\ UNCHANGED <<listing, metadata, dirs, files, out, pdf_files, idx, convVars, retval,
                   openDocs, clock, calls, results, closeCalls, written, rendered,
                   error, raisedBy, writeLog>>

\* lines 101-104: the summary
BatchSummary ==
    /\ pc = "batch_loop"
    /\ idx = Len(pdf_files)
    /\ out' = Append(out, <<"summary", successful, failed>>)
    /\ pc' = "batch_done"
    /\ UNCHANGED <<listing, metadata, dirs, files, batchVars, convVars, retval,
                   openDocs, clock, calls, results, closeCalls, written, rendered,
                   error, raisedBy, writeLog>>

(***************************************************************************)
(* convert_pdf_to_images                                                   *)
(***************************************************************************)
\* lines 16-17, outside the try block: an exception of os.makedirs leaves the function
ConvMakedirs ==
    /\ pc = "conv_mkdir"
    /\ IF conv_folder \in dirs
       THEN /\ pc' = "conv_open"
            /\ UNCHANGED <<dirs, raisedBy>>
       ELSE \E ok \in BOOLEAN :
              IF ok
              THEN /\ dirs' = dirs \cup {conv_folder}
                   /\ pc' = "conv_open"
                   /\ UNCHANGED raisedBy
              ELSE /\ pc' = "raised"
                   /\ raisedBy' = "makedirs"
                   /\ UNCHANGED dirs
    /\ UNCHANGED <<listing, metadata, files, out, batchVars, convVars, retval, openDocs,
                   clock, calls, results, closeCalls, written, rendered, error, writeLog>>

\* line 20: fitz.open succeeds and reports a page count
ConvOpenOk ==
    /\ pc = "conv_open"
    /\ \E n \in 0..MaxPages : page_count' = n
    /\ has_doc' = TRUE
    /\ openDocs' = openDocs + 1
    /\ page_number' = 0
    /\ pc' = "conv_page"
    /\ UNCHANGED <<listing, metadata, dirs, files, out, batchVars, pdf_path, conv_folder,
                   retval, clock, calls, results, closeCalls, written, rendered, error,
                   raisedBy, writeLog>>

\* line 20: fitz.open raises; pdf_document stays unbound
ConvOpenFail ==
    /\ pc = "conv_open"
    /\ error' = [kind |-> "open", page |-> 0]
    /\ pc' = "conv_except"
    /\ UNCHANGED <<listing, metadata, dirs, files, out, batchVars, convVars, retval,
                   openDocs, clock, calls, results, closeCalls, written, rendered,
                   raisedBy, writeLog>>

\* lines 23-26: rendering the page raises
ConvPageRenderFail ==
    /\ pc = "conv_page"
    /\ page_number < page_count
    /\ error' = [kind |-> "render", page |-> page_number + 1]
    /\ pc' = "conv_except"
    /\ UNCHANGED <<listing, metadata, dirs, files, out, batchVars, convVars, retval,
                   openDocs, clock, calls, results, closeCalls, written, rendered,
                   raisedBy, writeLog>>

\* variant: the exception of img.save is swallowed inside the loop, which goes on
ConvPageWriteFail_Continue ==
    /\ pc = "conv_page"
    /\ page_number < page_count
    /\ rendered' = rendered + 1
    /\ clock' = clock + 1
    /\ error' = [kind |-> "write", page |-> page_number + 1]
    /\ page_number' = page_number + 1
    /\ UNCHANGED <<listing, metadata, dirs, files, out, pc, batchVars, pdf_path,
                   conv_folder, has_doc, page_count, retval, openDocs, calls, results,
                   closeCalls, written, raisedBy, writeLog>>

\* lines 23-51: the page is rendered, but img.save raises; the file it was
\* writing is either untouched or left behind incomplete
ConvPageWriteFail ==
    /\ pc = "conv_page"
    /\ page_number < page_count
    /\ rendered' = rendered + 1
    /\ clock' = clock + 1
    /\ \E partial \in BOOLEAN :
         files' = IF partial
                  THEN Save(files, ImagePath(pdf_path, conv_folder, page_number),
                            [path |-> ImagePath(pdf_path, conv_folder, page_number),
                             valid |-> FALSE, meta |-> <<>>, src |-> calls[Len(calls)],
                             pages |-> page_count, page |-> page_number + 1,
                             stamp |-> clock])
                  ELSE files
    /\ error' = [kind |-> "write", page |-> page_number + 1]
    /\ pc' = "conv_except"
    /\ UNCHANGED <<listing, metadata, dirs, out, batchVars, convVars, retval, openDocs,
                   calls, results, closeCalls, written, raisedBy, writeLog>>

\* lines 23-51: one full iteration of the page loop
ConvPageOk ==
    /\ pc = "conv_page"
    /\ page_number < page_count
    /\ LET image_path == ImagePath(pdf_path, conv_folder, page_number)
           meta == BasicMetadata(pdf_path, page_number, page_count, clock)
                   \o CustomMetadata(metadata)
       IN  /\ files' = Save(files, image_path,
                            [path |-> image_path, valid |-> TRUE, meta |-> meta,
                             src |-> calls[Len(calls)], pages |-> page_count,
                             page |-> page_number + 1, stamp |-> clock])
           /\ written' = Append(written, image_path)
           /\ writeLog' = Append(writeLog, <<calls[Len(calls)], image_path>>)
    /\ rendered' = rendered + 1
    /\ clock' = clock + 1
    /\ page_number' = page_number + 1
    /\ UNCHANGED <<listing, metadata, dirs, out, pc, batchVars, pdf_path, conv_folder,
                   has_doc, page_count, retval, openDocs, calls, results, closeCalls,
                   error, raisedBy>>

\* lines 53-54: the loop is over; return True is executed, finally is pending
ConvLoopEnd ==
    /\ pc = "conv_page"
    /\ page_number = page_count
    /\ out' = Append(out, <<"success", Basename(pdf_path)>>)
    /\ retval' = TRUE
    /\ pc' = "conv_finally"
    /\ UNCHANGED <<listing, metadata, dirs, files, batchVars, convVars, openDocs, clock,
                   calls, results, closeCalls, written, rendered, error, raisedBy,
                   writeLog>>

\* variant: the handler prints and re-raises
ConvExcept_Reraise ==
    /\ pc = "conv_except"
    /\ out' = Append(out, <<"error", Basename(pdf_path), error.kind>>)
    /\ pc' = "raised"
    /\ raisedBy' = error.kind
    /\ UNCHANGED <<listing, metadata, dirs, files, batchVars, convVars, retval, openDocs,
                   clock, calls, results, closeCalls, written, rendered, error, writeLog>>

\* lines 56-58: except Exception; return False is executed, finally is pending
ConvExcept ==
    /\ pc = "conv_except"
    /\ out' = Append(out, <<"error", Basename(pdf_path), error.kind>>)
    /\ retval' = FALSE
    /\ pc' = "conv_finally"
    /\ UNCHANGED <<listing, metadata, dirs, files, batchVars, convVars, openDocs, clock,
                   calls, results, closeCalls, written, rendered, error, raisedBy,
                   writeLog>>

\* variant: no finally block; the function returns without closing
ConvFinally_NoClose ==
    /\ pc = "conv_finally"
    /\ pc' = "batch_return"
    /\ results' = Append(results, retval)
    /\ UNCHANGED <<listing, metadata, dirs, files, out, batchVars, convVars, retval,
                   openDocs, clock, calls, closeCalls, written, rendered, error,
                   raisedBy, writeLog>>

\* lines 60-62: finally; an exception of close() replaces the pending return
ConvFinally ==
    /\ pc = "conv_finally"
    /\ IF has_doc
       THEN \E ok \in BOOLEAN :
              /\ closeCalls' = closeCalls + 1
              /\ IF ok
                 THEN /\ openDocs' = openDocs - 1
                      /\ pc' = "batch_return"
                      /\ results' = Append(results, retval)
                      /\ UNCHANGED raisedBy
                 ELSE /\ \E released \in BOOLEAN :
                           openDocs' = IF released THEN openDocs - 1 ELSE openDocs
                      /\ pc' = "raised"
                      /\ raisedBy' = "close"
                      /\ UNCHANGED results
       ELSE /\ pc' = "batch_return"
            /\ results' = Append(results, retval)
            /\ UNCHANGED <<closeCalls, openDocs, raisedBy>>
    /\ UNCHANGED <<listing, metadata, dirs, files, out, batchVars, convVars, retval,
                   clock, calls, written, rendered, error, writeLog>>

Next ==
    \/ BatchStart
    \/ BatchCallConvert
    \/ BatchCount
    \/ BatchSummary
    \/ ConvMakedirs
    \/ ConvOpenOk
    \/ ConvOpenFail
    \/ ConvPageRenderFail
    \/ ConvPageWriteFail
    \/ ConvPageOk
    \/ ConvLoopEnd
    \/ ConvExcept
    \/ ConvFinally

Spec == Init /\ [][Next]_vars

(***************************************************************************)
(* Vocabulary of the properties                                            *)
(***************************************************************************)
Terminal == {"batch_done", "batch_nofiles", "raised"}

\* the entries of the listing whose name ends in .pdf, case-insensitively
Selected == SelectSeq(listing, LAMBDA f : Len(f) >= 4 /\ Lower(SubSeq(f, Len(f) - 3, Len(f))) = DotPdf)

IsPrefix(s, t) == Len(s) <= Len(t) /\ SubSeq(t, 1, Len(s)) = s

Count(seq, b) == Cardinality({i \in 1..Len(seq) : seq[i] = b})

Front(seq) == SubSeq(seq, 1, Len(seq) - 1)

\* the entry the current (or latest) call of convert_pdf_to_images was given
Current == calls[Len(calls)]

\* <output>/<stem>/<stem>_page_<k>.png, the stem being the name without its ".pdf"
ExpectedPath(name, k) ==
    LET stem == SubSeq(name, 1, Len(name) - 4)
    IN  output_folder \o <<"/">> \o stem \o <<"/">> \o stem \o PageTag \o Str(k) \o DotPng

ExpectedPaths(name, n) == [k \in 1..n |-> ExpectedPath(name, k)]

IsNat(s) == Len(s) > 0 /\ \A i \in 1..Len(s) : \E d \in 1..10 : Digits[d] = s[i]

DigitVal(c) == (CHOOSE d \in 1..10 : Digits[d] = c) - 1

RECURSIVE ParseNat(_)
ParseNat(s) == IF Len(s) = 1 THEN DigitVal(s[1])
               ELSE 10 * ParseNat(Front(s)) + DigitVal(s[Len(s)])

Contains(meta, key, value) == \E i \in 1..Len(meta) : meta[i] = <<key, value>>

\* what a reader that decodes the text chunks in file order into a
\* dictionary finds under key: the value of the last chunk with that key
Lookup(meta, key) ==
    LET hits == {i \in 1..Len(meta) : meta[i][1] = key}
    IN  meta[CHOOSE i \in hits : \A j \in hits : j <= i][2]

FixedKeys == {"Source_PDF", "Conversion_Date", "Page_Number", "Total_Pages"}

(***************************************************************************)
(* C1  Failure isolation in batch_convert_pdfs                             *)
(***************************************************************************)
\* C1 (as stated): whenever the batch has ended, every selected entry was
\* handed to convert_pdf_to_images exactly once, in listing order; no failed
\* conversion keeps a later entry from being attempted.
C1_EverySelectedFileAttempted ==
    pc \in Terminal => calls = Selected

\* C1 (amended): the entries handed to convert_pdf_to_images are always a
\* prefix of the selected entries (each at most once, in listing order); a
\* call that returns, with either boolean, is followed by the next entry or
\* by the summary, so that a batch that reaches its summary has handed over
\* every selected entry exactly once; the batch stops short only when an
\* exception left convert_pdf_to_images.
C1_FailureIsolation ==
    /\ IsPrefix(calls, Selected)
    /\ pc = "batch_return" => ENABLED BatchCount
    /\ pc = "batch_loop" => (ENABLED BatchCallConvert) \/ (ENABLED BatchSummary)
    /\ pc = "batch_loop" => Len(results) = Len(calls)
    /\ pc \in {"batch_done", "batch_nofiles"} => calls = Selected /\ Len(results) = Len(calls)
    /\ (pc \in Terminal /\ calls # Selected) => pc = "raised"

\* a batch that went on to its second entry after the first one failed
C1_Witness ==
    /\ pc = "batch_done"
    /\ Len(calls) = 2
    /\ results = <<FALSE, TRUE>>

(***************************************************************************)
(* C2  Release of the document handle                                      *)
(***************************************************************************)
\* C2: when convert_pdf_to_images returns, close() was called exactly once
\* if the document was opened and never if opening failed; close() is never
\* called twice; and no document is open while the orchestrator is between
\* two calls or starts the next one.
C2_HandleReleased ==
    /\ closeCalls <= 1
    /\ openDocs \in {0, 1}
    /\ pc = "batch_return" =>
          /\ has_doc => closeCalls = 1
          /\ ~has_doc => closeCalls = 0
          /\ openDocs = 0
    /\ error.kind = "open" => ~has_doc /\ closeCalls = 0
    /\ (pc = "raised" /\ raisedBy = "close") => closeCalls = 1
    /\ pc \in {"batch_loop", "batch_done", "conv_mkdir", "conv_open"} => openDocs = 0

\* a call that failed while writing a page has returned with its handle closed
C2_Witness ==
    /\ pc = "batch_return"
    /\ has_doc
    /\ error.kind = "write"
    /\ closeCalls = 1
    /\ openDocs = 0

(***************************************************************************)
(* C3  One image per page                                                  *)
(***************************************************************************)
\* C3: a call that met no error returns True, and a call that returns True
\* wrote exactly page_count files, <stem>_page_1.png up to
\* <stem>_page_<page_count>.png in that order, each of them on disk; with
\* page_count = 0 it wrote none.
C3_OneImagePerPage ==
    pc = "batch_return" =>
        /\ error = NoError => retval
        /\ retval =>
              /\ error = NoError
              /\ written = ExpectedPaths(Current, page_count)
              /\ rendered = page_count
              /\ \A k \in 1..page_count :
                    \E f \in files : /\ f.path = written[k]
                                     /\ f.valid
                                     /\ f.src = Current
                                     /\ f.page = k

\* a two-page document converted without error
C3_Witness ==
    /\ pc = "batch_return"
    /\ retval
    /\ page_count = 2
    /\ Len(written) = 2

(***************************************************************************)
(* C4  Page_Number and Total_Pages                                         *)
(***************************************************************************)
\* C4 (as stated): every image written holds Total_Pages equal to the page
\* count of its document and a Page_Number strictly between 1 and that count.
C4_PageNumberStrictlyBetween ==
    \A f \in files : f.valid =>
        /\ Contains(f.meta, "Total_Pages", Str(f.pages))
        /\ \E i \in 1..Len(f.meta) :
              /\ f.meta[i][1] = "Page_Number"
              /\ IsNat(f.meta[i][2])
              /\ 1 < ParseNat(f.meta[i][2])
              /\ ParseNat(f.meta[i][2]) < f.pages

\* C4 (amended): every image written holds a Total_Pages entry equal to the
\* page count of its document and a Page_Number entry that is the 1-based
\* number of its page, from 1 to that count, both ends included.
C4_PageNumberInRange ==
    \A f \in files : f.valid =>
        /\ Contains(f.meta, "Total_Pages", Str(f.pages))
        /\ ParseNat(Str(f.pages)) = f.pages
        /\ \E i \in 1..Len(f.meta) :
              /\ f.meta[i][1] = "Page_Number"
              /\ IsNat(f.meta[i][2])
              /\ ParseNat(f.meta[i][2]) = f.page
              /\ 1 <= ParseNat(f.meta[i][2])
              /\ ParseNat(f.meta[i][2]) <= f.pages

\* the last page of a two-page document is on disk
C4_Witness ==
    \E f \in files : f.valid /\ f.pages = 2 /\ f.page = 2

(***************************************************************************)
(* C5  Fixed fields against caller-supplied fields                         *)
(***************************************************************************)
\* C5: in every image written, what is read under each of Source_PDF,
\* Conversion_Date, Page_Number and Total_Pages is the value the converter
\* computed, whatever keys the caller's metadata holds.
C5_FixedFieldsProtected ==
    \A f \in files : f.valid =>
        LET fixed == BasicMetadata(Join(input_folder, f.src), f.page - 1, f.pages, f.stamp)
        IN  \A i \in 1..Len(fixed) : Lookup(f.meta, fixed[i][1]) = fixed[i][2]

(***************************************************************************)
(* C6  Containment of failures                                             *)
(***************************************************************************)
\* C6 (as stated): no failure during a call of convert_pdf_to_images is
\* raised past it.
C6_NothingRaised ==
    pc # "raised"

\* C6 (amended): a failure of fitz.open, of rendering a page or of writing
\* an image is caught: the error is printed and the call returns False,
\* unless close() then fails; the only exceptions that leave
\* convert_pdf_to_images are those of os.makedirs and of close().
C6_ContainedFailures ==
    /\ pc = "raised" => raisedBy \in {"makedirs", "close"}
    /\ pc # "raised" => raisedBy = "none"
    /\ (pc \in {"conv_finally", "batch_return"} /\ error # NoError) =>
          /\ retval = FALSE
          /\ out[Len(out)] = <<"error", Current, error.kind>>
    /\ pc = "conv_except" => (ENABLED ConvExcept) /\ error.kind \in {"open", "render", "write"}
    /\ (pc = "conv_finally" /\ ~has_doc) => ENABLED ConvFinally

\* a rendering failure came back to the orchestrator as False
C6_Witness ==
    /\ pc = "batch_return"
    /\ error.kind = "render"
    /\ retval = FALSE

(***************************************************************************)
(* C7  The summary's counts                                                *)
(***************************************************************************)
\* C7: between two calls successful and failed count the True and the False
\* results so far and add up to the number of entries processed; the summary
\* prints these counts, which then add up to the number of selected entries.
C7_SummaryCounts ==
    /\ pc # "batch_return" =>
          /\ successful = Count(results, TRUE)
          /\ failed = Count(results, FALSE)
          /\ successful + failed = Len(results)
    /\ pc = "batch_return" =>
          /\ successful = Count(Front(results), TRUE)
          /\ failed = Count(Front(results), FALSE)
    /\ pc = "batch_loop" => successful + failed = idx
    /\ pc = "batch_done" =>
          /\ out[Len(out)] = <<"summary", Count(results, TRUE), Count(results, FALSE)>>
          /\ successful + failed = Len(Selected)

\* a.pdf converted, b.pdf failed: the summary says 1 and 1
C7_Witness ==
    /\ pc = "batch_done"
    /\ results = <<TRUE, FALSE>>
    /\ out[Len(out)] = <<"summary", 1, 1>>

(***************************************************************************)
(* C8  No rollback, no further page after an error                         *)
(***************************************************************************)
\* C8: once an error has occurred on page k of a document, the images of
\* pages 1..k-1 that the call wrote stay on disk, no later page is rendered
\* or written, and the call's return value is False.
C8_NoRollback ==
    error.page > 0 =>
        /\ written = ExpectedPaths(Current, error.page - 1)
        /\ \A j \in 1..(error.page - 1) :
              \E f \in files : f.path = written[j] /\ f.valid /\ f.src = Current /\ f.page = j
        /\ \A f \in files : f.src = Current => f.page <= error.page
        /\ rendered <= error.page
        /\ page_number = error.page - 1
        /\ pc \in {"conv_finally", "batch_return", "batch_loop", "batch_done"} => retval = FALSE
        /\ pc = "batch_return" => results[Len(results)] = FALSE

\* writing page 2 failed; page 1 is still on disk when the call has returned
C8_Witness ==
    /\ pc = "batch_return"
    /\ error = [kind |-> "write", page |-> 2]
    /\ Len(written) = 1
    /\ \E f \in files : f.path = written[1] /\ f.valid

(***************************************************************************)
(* C9  Empty selection                                                     *)
(***************************************************************************)
\* C9: when no entry of the listing ends in .pdf (case-insensitively), the
\* batch prints the "no PDF files" message and stops: no call of
\* convert_pdf_to_images, no subfolder, no image, no summary.
C9_EmptySelection ==
    (Selected = <<>> /\ pc # "batch_start") =>
        /\ pc = "batch_nofiles"
        /\ out = << <<"nofiles">> >>
        /\ calls = <<>>
        /\ dirs = {output_folder}
        /\ files = {}

\* a directory that holds entries, none of them a PDF
C9_Witness ==
    /\ pc = "batch_nofiles"
    /\ Len(listing) > 0

(***************************************************************************)
(* C10  Distinct inputs, distinct outputs                                  *)
(***************************************************************************)
\* C10: two different entries of the listing never write the same path.
C10_DisjointOutputs ==
    \A i, j \in 1..Len(writeLog) :
        writeLog[i][2] = writeLog[j][2] => writeLog[i][1] = writeLog[j][1]

====
